---- MODULE Spec2Model ----
(***************************************************************************)
(* Model of src/index.js: an Express server with two asynchronous routes.  *)
(*   POST /predict     multer stores the upload in a temporary file, the   *)
(*                     handler reads it, awaits the generative API,        *)
(*                     answers, and unlinks the file in a finally block.   *)
(*   GET  /test-gemini the same API call and result handling, no file.     *)
(*                                                                         *)
(* Node runs one JavaScript turn at a time.  A handler is therefore made   *)
(* of turns separated by its await; inside a turn the model keeps the      *)
(* system calls that the outside world can tell apart (res.send, then the  *)
(* unlink of the finally block) as successive steps, and the variable      *)
(* running names the request whose turn is in progress: no other handler   *)
(* step is enabled until that turn has ended.                              *)
(***************************************************************************)
EXTENDS Naturals, Sequences, FiniteSets

\* ------------------------------------------------------------------ bounds
NumRequests == 2
MaxCandidates == 2
MaxParts == 2

Requests == 1..NumRequests

\* ---------------------------------------------------- optional JS values
\* undefined is the empty tuple, a defined value x is <<x>>.
None == <<>>
Some(x) == <<x>>
Opt(S) == {None} \cup {Some(x) : x \in S}
SeqUpTo(S, n) == UNION {[1..k -> S] : k \in 0..n}

\* ------------------------------------------- the upstream result's shape
Texts == {"T1", "T2"}
BlockReasons == {"SAFETY", "OTHER"}
Parts == [text : Opt(Texts)]
Contents == [parts : Opt(SeqUpTo(Parts, MaxParts))]
Candidates == [content : Opt(Contents)]
PromptFeedbacks == [blockReason : Opt(BlockReasons)]
ApiResults == [promptFeedback : Opt(PromptFeedbacks), candidates : Opt(SeqUpTo(Candidates, MaxCandidates))]

Resolve(result) == [kind |-> "resolve", result |-> Some(result), message |-> None]
Reject(message) == [kind |-> "reject", result |-> None, message |-> Some(message)]
TransportError == <<"fetch failed">>

\* One upstream result of each kind, for the runs with several requests in flight.
TextCandidate(t) == [content |-> Some([parts |-> Some(<<[text |-> Some(t)]>>)])]
SampleResults ==
  { [promptFeedback |-> None, candidates |-> Some(<<TextCandidate("T1")>>)],
    [promptFeedback |-> Some([blockReason |-> Some("SAFETY")]), candidates |-> None],
    [promptFeedback |-> None, candidates |-> Some(<<>>)],
    [promptFeedback |-> None, candidates |-> Some(<<[content |-> None]>>)] }

\* ------------------------------------------------------------------ state
VARIABLES pc, route, reqFile, files, nextName, responses, apiResult, raised,
          trace, escaped, alive, running

vars == <<pc, route, reqFile, files, nextName, responses, apiResult, raised,
          trace, escaped, alive, running>>

Init ==
  /\ pc = [r \in Requests |-> "idle"]
  /\ route = [r \in Requests |-> "none"]
  /\ reqFile = [r \in Requests |-> None]
  /\ files = {}
  /\ nextName = 1
  /\ responses = [r \in Requests |-> <<>>]
  /\ apiResult = [r \in Requests |-> None]
  /\ raised = [r \in Requests |-> None]
  /\ trace = [r \in Requests |-> <<>>]
  /\ escaped = [r \in Requests |-> FALSE]
  /\ alive = TRUE
  /\ running = 0

\* ------------------------------------------------- result handling (pure)
\* A completed try body: it returned a text (possibly undefined) or threw.
Return(text) == [threw |-> FALSE, text |-> text, error |-> None]
Throw(message) == [threw |-> TRUE, text |-> None, error |-> Some(message)]

\* result.promptFeedback?.blockReason
BlockReason(result) ==
  IF result.promptFeedback = None THEN None ELSE result.promptFeedback[1].blockReason

\* `Content generation blocked: ${reason}` and, in /test-gemini, `Test content ...`
BlockedMessage(rt, reason) ==
  IF rt = "predict" THEN <<"Content generation blocked: ", reason>>
  ELSE <<"Test content generation blocked: ", reason>>

\* !result.candidates || result.candidates.length === 0
NoCandidates_OnlyUndefined(result) == result.candidates = None
NoCandidates(result) ==
  \/ result.candidates = None
  \/ Len(result.candidates[1]) = 0

NoCandidatesMessage(rt) ==
  IF rt = "predict" THEN <<"No candidates returned from API.">>
  ELSE <<"No candidates returned from API in test.">>

\* What reading a property of undefined throws.
TypeErrorMessage == <<"Cannot read properties of undefined">>

\* result.candidates[0].content.parts[0].text: an index past the end of an array
\* yields undefined, and reading a property of undefined throws a TypeError.
FirstPartText_LastCandidate(candidates) ==
  LET c == candidates[Len(candidates)] IN
  IF Len(candidates) = 0 THEN Throw(TypeErrorMessage)
  ELSE IF c.content = None THEN Throw(TypeErrorMessage)
  ELSE IF c.content[1].parts = None THEN Throw(TypeErrorMessage)
  ELSE IF Len(c.content[1].parts[1]) = 0 THEN Throw(TypeErrorMessage)
  ELSE Return(c.content[1].parts[1][1].text)
FirstPartText_OptionalChaining(candidates) ==
  LET c == candidates[1] IN
  IF Len(candidates) = 0 THEN Return(None)
  ELSE IF c.content = None THEN Return(None)
  ELSE IF c.content[1].parts = None THEN Return(None)
  ELSE IF Len(c.content[1].parts[1]) = 0 THEN Return(None)
  ELSE Return(c.content[1].parts[1][1].text)
FirstPartText(candidates) ==
  LET c == candidates[1] IN
  IF Len(candidates) = 0 THEN Throw(TypeErrorMessage)
  ELSE IF c.content = None THEN Throw(TypeErrorMessage)
  ELSE IF c.content[1].parts = None THEN Throw(TypeErrorMessage)
  ELSE IF Len(c.content[1].parts[1]) = 0 THEN Throw(TypeErrorMessage)
  ELSE Return(c.content[1].parts[1][1].text)

\* The statements after the await, up to the value of responseText.
Extract_CandidatesFirst(rt, result) ==
  IF ~NoCandidates(result) THEN FirstPartText(result.candidates[1])
  ELSE IF BlockReason(result) # None THEN Throw(BlockedMessage(rt, BlockReason(result)[1]))
  ELSE Throw(NoCandidatesMessage(rt))
Extract(rt, result) ==
  IF BlockReason(result) # None THEN Throw(BlockedMessage(rt, BlockReason(result)[1]))
  ELSE IF NoCandidates(result) THEN Throw(NoCandidatesMessage(rt))
  ELSE FirstPartText(result.candidates[1])

\* The await and what follows it in the try body: a rejected promise throws.
TryBody(rt, outcome) ==
  IF outcome.kind = "reject" THEN Throw(outcome.message[1])
  ELSE Extract(rt, outcome.result[1])

\* ---------------------------------------------------------- responses
\* res.send(object) sends JSON.stringify(object): undefined members are dropped.
Json(obj) == [k \in {j \in DOMAIN obj : obj[j] # None} |-> obj[k][1]]

NoFileResponse ==
  [status |-> 400, body |-> Json([success |-> Some(FALSE), message |-> Some("No file uploaded.")])]

SuccessResponse(rt, text) ==
  IF rt = "predict"
  THEN [status |-> 200, body |-> Json([success |-> Some(TRUE), result |-> text])]
  ELSE [status |-> 200,
        body |-> Json([success |-> Some(TRUE),
                       message |-> Some("Gemini API is working correctly."),
                       result |-> text])]

ErrorEnvelope(rt, message) ==
  Json([success |-> Some(FALSE),
        message |-> Some(IF rt = "predict" THEN "Error processing the prediction"
                         ELSE "Error testing the Gemini API"),
        error |-> Some(message)])
ErrorResponse_DefaultStatus(rt, message) == [status |-> 200, body |-> ErrorEnvelope(rt, message)]
ErrorResponse(rt, message) == [status |-> 500, body |-> ErrorEnvelope(rt, message)]

\* The response a finished try body leads to: res.send in the try, or the catch.
Reply(rt, t) ==
  IF t.threw THEN ErrorResponse(rt, t.error[1]) ELSE SuccessResponse(rt, t.text)

\* --------------------------------------------------------- file system
ReadError == <<"EIO: i/o error, read">>
MissingError == <<"ENOENT: no such file or directory, open">>

\* const filePath = req.file.path: a constant local to one call of the handler.
FilePath_Shared(rf, r) ==
  LET stored == {rf[q][1] : q \in {p \in DOMAIN rf : rf[p] # None}} IN
  CHOOSE p \in stored : \A q \in stored : q <= p
FilePath(rf, r) == rf[r][1]

\* One entry of a request's history of effects.
Event(op, path, exists, ok) == [op |-> op, path |-> path, exists |-> exists, ok |-> ok]

\* ------------------------------------------------------------- actions
Log(r, events) == [trace EXCEPT ![r] = @ \o events]
Send(r, resp) == [responses EXCEPT ![r] = Append(@, resp)]

\* A request arrives and is routed.  For POST /predict the multer middleware runs
\* first: with a `file` field it stores the upload under a freshly generated name
\* in the upload directory and sets req.file; without one req.file stays undefined.
Arrive(r, rt, withFile) ==
  /\ alive /\ running = 0
  /\ pc[r] = "idle"
  /\ pc' = [pc EXCEPT ![r] = "routed"]
  /\ route' = [route EXCEPT ![r] = rt]
  /\ IF rt = "predict" /\ withFile
     THEN /\ reqFile' = [reqFile EXCEPT ![r] = Some(nextName)]
          /\ files' = files \cup {nextName}
          /\ nextName' = nextName + 1
     ELSE UNCHANGED <<reqFile, files, nextName>>
  /\ UNCHANGED <<responses, apiResult, raised, trace, escaped, alive, running>>

\* POST /predict, first turn: the no-file guard, readFileSync, and the call of
\* generateContent at which the handler suspends.  A failed read throws into the
\* catch, which answers; the finally block is then the next step of this turn.
PredictStart_NoGuard(r, readFails) ==
  /\ alive /\ running = 0
  /\ pc[r] = "routed" /\ route[r] = "predict"
  /\ IF reqFile[r] = None
     THEN /\ trace' = Log(r, <<Event("api", 0, FALSE, TRUE)>>)
          /\ pc' = [pc EXCEPT ![r] = "awaiting"]
          /\ UNCHANGED <<responses, raised, running>>
     ELSE LET fp == FilePath(reqFile, r)
              exists == fp \in files
              ok == exists /\ ~readFails
              err == IF exists THEN ReadError ELSE MissingError
          IN IF ok
             THEN /\ trace' = Log(r, <<Event("read", fp, exists, TRUE), Event("api", 0, FALSE, TRUE)>>)
                  /\ pc' = [pc EXCEPT ![r] = "awaiting"]
                  /\ UNCHANGED <<responses, raised, running>>
             ELSE /\ trace' = Log(r, <<Event("read", fp, exists, FALSE), Event("send", 0, FALSE, TRUE)>>)
                  /\ raised' = [raised EXCEPT ![r] = Some(err)]
                  /\ responses' = Send(r, ErrorResponse("predict", err))
                  /\ pc' = [pc EXCEPT ![r] = "finally"]
                  /\ running' = r
  /\ UNCHANGED <<route, reqFile, files, nextName, apiResult, escaped, alive>>
PredictStart(r, readFails) ==
  /\ alive /\ running = 0
  /\ pc[r] = "routed" /\ route[r] = "predict"
  /\ IF reqFile[r] = None
     THEN /\ responses' = Send(r, NoFileResponse)
          /\ trace' = Log(r, <<Event("send", 0, FALSE, TRUE)>>)
          /\ pc' = [pc EXCEPT ![r] = "done"]
          /\ UNCHANGED <<raised, running>>
     ELSE LET fp == FilePath(reqFile, r)
              exists == fp \in files
              ok == exists /\ ~readFails
              err == IF exists THEN ReadError ELSE MissingError
          IN IF ok
             THEN /\ trace' = Log(r, <<Event("read", fp, exists, TRUE), Event("api", 0, FALSE, TRUE)>>)
                  /\ pc' = [pc EXCEPT ![r] = "awaiting"]
                  /\ UNCHANGED <<responses, raised, running>>
             ELSE /\ trace' = Log(r, <<Event("read", fp, exists, FALSE), Event("send", 0, FALSE, TRUE)>>)
                  /\ raised' = [raised EXCEPT ![r] = Some(err)]
                  /\ responses' = Send(r, ErrorResponse("predict", err))
                  /\ pc' = [pc EXCEPT ![r] = "finally"]
                  /\ running' = r
  /\ UNCHANGED <<route, reqFile, files, nextName, apiResult, escaped, alive>>

\* POST /predict, second turn, once the awaited call has settled with outcome:
\* the result is examined and the response is sent, by the try body or by the catch.
PredictAnswer_CleanupFirst(r, outcome) ==
  LET t == TryBody("predict", outcome)
      fp == FilePath(reqFile, r)
  IN /\ apiResult' = [apiResult EXCEPT ![r] = Some(outcome)]
     /\ raised' = [raised EXCEPT ![r] = t.error]
     /\ files' = files \ {fp}
     /\ responses' = Send(r, Reply("predict", t))
     /\ trace' = Log(r, <<Event("unlink", fp, fp \in files, TRUE), Event("send", 0, FALSE, TRUE)>>)
PredictAnswer(r, outcome) ==
  LET t == TryBody("predict", outcome)
  IN /\ apiResult' = [apiResult EXCEPT ![r] = Some(outcome)]
     /\ raised' = [raised EXCEPT ![r] = t.error]
     /\ responses' = Send(r, Reply("predict", t))
     /\ trace' = Log(r, <<Event("send", 0, FALSE, TRUE)>>)
     /\ UNCHANGED files

\* The handler resumes when the promise of generateContent settles: it resolves
\* with one of results, or it rejects.
PredictResume(r, results) ==
  /\ alive /\ running = 0
  /\ pc[r] = "awaiting" /\ route[r] = "predict"
  /\ \/ \E res \in results : PredictAnswer(r, Resolve(res))
     \/ PredictAnswer(r, Reject(TransportError))
  /\ pc' = [pc EXCEPT ![r] = "finally"]
  /\ running' = r
  /\ UNCHANGED <<route, reqFile, nextName, escaped, alive>>

\* POST /predict, the finally block, still in the turn that sent the response:
\* existsSync, then unlinkSync.  Nothing catches a throw of unlinkSync: it leaves
\* the async handler as a rejected promise.  What the rejection does depends on the
\* installed Express and Node (no manifest pins them): it ends the process as an
\* unhandled rejection, or it is forwarded to the default error handler, which
\* finds the response already sent.
PredictFinally_OnlyAfterSuccess(r, unlinkFails, fatal) ==
  /\ alive /\ running = r
  /\ pc[r] = "finally"
  /\ ~unlinkFails /\ ~fatal
  /\ LET fp == FilePath(reqFile, r) IN
     IF fp \in files /\ raised[r] = None
     THEN /\ trace' = Log(r, <<Event("unlink", fp, TRUE, TRUE)>>)
          /\ files' = files \ {fp}
     ELSE UNCHANGED <<trace, files>>
  /\ pc' = [pc EXCEPT ![r] = "done"]
  /\ running' = 0
  /\ UNCHANGED <<route, reqFile, nextName, responses, apiResult, raised, escaped, alive>>
PredictFinally(r, unlinkFails, fatal) ==
  /\ alive /\ running = r
  /\ pc[r] = "finally"
  /\ LET fp == FilePath(reqFile, r) IN
     IF fp \in files
     THEN /\ trace' = Log(r, <<Event("unlink", fp, TRUE, ~unlinkFails)>>)
          /\ IF unlinkFails
             THEN /\ escaped' = [escaped EXCEPT ![r] = TRUE]
                  /\ alive' = ~fatal
                  /\ pc' = [pc EXCEPT ![r] = "escaped"]
                  /\ UNCHANGED files
             ELSE /\ ~fatal
                  /\ files' = files \ {fp}
                  /\ pc' = [pc EXCEPT ![r] = "done"]
                  /\ UNCHANGED <<escaped, alive>>
     ELSE /\ ~unlinkFails /\ ~fatal
          /\ pc' = [pc EXCEPT ![r] = "done"]
          /\ UNCHANGED <<trace, files, escaped, alive>>
  /\ running' = 0
  /\ UNCHANGED <<route, reqFile, nextName, responses, apiResult, raised>>

\* GET /test-gemini, first turn: the call of generateContent.
TestStart(r) ==
  /\ alive /\ running = 0
  /\ pc[r] = "routed" /\ route[r] = "test"
  /\ trace' = Log(r, <<Event("api", 0, FALSE, TRUE)>>)
  /\ pc' = [pc EXCEPT ![r] = "awaiting"]
  /\ UNCHANGED <<route, reqFile, files, nextName, responses, apiResult, raised, escaped, alive, running>>

\* GET /test-gemini, second turn: the same examination of the result; no finally.
TestAnswer(r, outcome) ==
  LET t == TryBody("test", outcome)
  IN /\ apiResult' = [apiResult EXCEPT ![r] = Some(outcome)]
     /\ raised' = [raised EXCEPT ![r] = t.error]
     /\ responses' = Send(r, Reply("test", t))
     /\ trace' = Log(r, <<Event("send", 0, FALSE, TRUE)>>)

TestResume(r, results) ==
  /\ alive /\ running = 0
  /\ pc[r] = "awaiting" /\ route[r] = "test"
  /\ \/ \E res \in results : TestAnswer(r, Resolve(res))
     \/ TestAnswer(r, Reject(TransportError))
  /\ pc' = [pc EXCEPT ![r] = "done"]
  /\ UNCHANGED <<route, reqFile, files, nextName, escaped, alive, running>>

\* --------------------------------------------------------- specifications
Routes == {"predict", "test"}

\* Concurrent requests, with one upstream outcome of each kind.
Next ==
  \E r \in Requests :
    \/ \E rt \in Routes, withFile \in BOOLEAN : Arrive(r, rt, withFile)
    \/ \E readFails \in BOOLEAN : PredictStart(r, readFails)
    \/ PredictResume(r, SampleResults)
    \/ \E unlinkFails \in BOOLEAN, fatal \in BOOLEAN : PredictFinally(r, unlinkFails, fatal)
    \/ TestStart(r)
    \/ TestResume(r, SampleResults)

Spec == Init /\ [][Next]_vars

\* One request at a time, over every upstream result within the bounds.
NextResult ==
  \/ \E rt \in Routes, withFile \in BOOLEAN : Arrive(1, rt, withFile)
  \/ \E readFails \in BOOLEAN : PredictStart(1, readFails)
  \/ PredictResume(1, ApiResults)
  \/ \E unlinkFails \in BOOLEAN, fatal \in BOOLEAN : PredictFinally(1, unlinkFails, fatal)
  \/ TestStart(1)
  \/ TestResume(1, ApiResults)

SpecResult == Init /\ [][NextResult]_vars

\* ================================================================ claims
HasFile(r) == route[r] = "predict" /\ reqFile[r] # None
OwnPath(r) == reqFile[r][1]
Finished(r) == pc[r] \in {"done", "escaped"}
Events(r, op) == SelectSeq(trace[r], LAMBDA e : e.op = op)
UnlinkThrew(r) == \E i \in DOMAIN trace[r] : trace[r][i].op = "unlink" /\ ~trace[r][i].ok
ReadThrew(r) == \E i \in DOMAIN trace[r] : trace[r][i].op = "read" /\ ~trace[r][i].ok
\* The handler ran its cleanup: one unlink, of the request's own file, which is
\* gone unless that unlink itself failed.
CleanedUp(r) ==
  /\ Len(Events(r, "unlink")) = 1
  /\ Events(r, "unlink")[1].path = OwnPath(r)
  /\ ~UnlinkThrew(r) => OwnPath(r) \notin files

\* The upstream result a request received, and its cases, read off the input.
Resolved(r) == apiResult[r] # None /\ apiResult[r][1].kind = "resolve"
Rejected(r) == apiResult[r] # None /\ apiResult[r][1].kind = "reject"
Result(r) == apiResult[r][1].result[1]
Blocked(r) ==
  /\ Resolved(r)
  /\ Result(r).promptFeedback # None
  /\ Result(r).promptFeedback[1].blockReason # None
VendorReason(r) == Result(r).promptFeedback[1].blockReason[1]
Unblocked(r) == Resolved(r) /\ ~Blocked(r)
Empty(r) ==
  /\ Unblocked(r)
  /\ \/ Result(r).candidates = None
     \/ Result(r).candidates[1] = <<>>
HasCandidate(r) == Unblocked(r) /\ ~Empty(r)
First(r) == Result(r).candidates[1][1]
NoContent(r) == HasCandidate(r) /\ First(r).content = None
NoParts(r) == HasCandidate(r) /\ ~NoContent(r) /\ First(r).content[1].parts = None
EmptyParts(r) ==
  /\ HasCandidate(r) /\ ~NoContent(r) /\ ~NoParts(r)
  /\ First(r).content[1].parts[1] = <<>>
HasFirstPart(r) == HasCandidate(r) /\ ~NoContent(r) /\ ~NoParts(r) /\ ~EmptyParts(r)
FirstPart(r) == First(r).content[1].parts[1][1]
FirstHasText(r) == HasFirstPart(r) /\ FirstPart(r).text # None
\* Some part of some candidate carries a text.
SomeText(r) ==
  /\ HasCandidate(r)
  /\ \E i \in DOMAIN Result(r).candidates[1] :
       LET c == Result(r).candidates[1][i] IN
       /\ c.content # None
       /\ c.content[1].parts # None
       /\ \E j \in DOMAIN c.content[1].parts[1] : c.content[1].parts[1][j].text # None

IsErrorEnvelope(resp) ==
  /\ resp.status = 500
  /\ DOMAIN resp.body = {"success", "message", "error"}
  /\ resp.body.success = FALSE

C3_NoFileRejected ==
  \A r \in Requests :
    (route[r] = "predict" /\ reqFile[r] = None) =>
      /\ \A i \in DOMAIN trace[r] : trace[r][i].op = "send"
      /\ apiResult[r] = None
      /\ pc[r] \in {"routed", "done"}
      /\ pc[r] = "done" =>
           responses[r] = <<[status |-> 400,
                             body |-> [success |-> FALSE, message |-> "No file uploaded."]]>>

C3_Witness ==
  \E r \in Requests :
    /\ route[r] = "predict" /\ reqFile[r] = None /\ pc[r] = "done"
    /\ responses[r][1].status = 400

\* ------------------------------------------------------------------- C4
\* C4: when the upstream result of a /predict request carries a block reason, with
\* or without candidates, the one response is 500 with success:false and an error
\* that contains the vendor's reason.
C4_BlockedFails ==
  \A r \in Requests :
    (route[r] = "predict" /\ Blocked(r)) =>
      /\ Len(responses[r]) = 1
      /\ IsErrorEnvelope(responses[r][1])
      /\ \E i \in DOMAIN responses[r][1].body.error :
           responses[r][1].body.error[i] = VendorReason(r)

C4_Witness ==
  \E r \in Requests :
    /\ route[r] = "predict" /\ Blocked(r)
    /\ Result(r).candidates # None
    /\ Result(r).candidates[1] # <<>>
    /\ Result(r).candidates[1][1] = TextCandidate("T1")
    /\ responses[r][1].status = 500

\* ------------------------------------------------------------------- C5
\* C5: when the upstream result of a /predict request has no block reason and a
\* missing or empty candidate list, the response is 500 with success:false and the
\* error "No candidates returned from API.".
C5_NoCandidatesFails ==
  \A r \in Requests :
    (route[r] = "predict" /\ Empty(r)) =>
      /\ Len(responses[r]) = 1
      /\ IsErrorEnvelope(responses[r][1])
      /\ responses[r][1].body.error = <<"No candidates returned from API.">>

C5_Witness ==
  \E r \in Requests :
    /\ route[r] = "predict" /\ Empty(r)
    /\ Result(r).candidates = Some(<<>>)
    /\ responses[r][1].status = 500

C7_CleanupFailureContained ==
  \A r \in Requests : UnlinkThrew(r) => (~escaped[r] /\ alive)

\* ------------------------------------------------------------------- C8
\* C8: a request whose handler raised a read failure, an upstream rejection, a
\* block, an empty candidate list or a malformed result gets exactly one response,
\* 500 with {success:false, message, error}; no request ever gets two responses.
ErrorCase(r) ==
  \/ ReadThrew(r)
  \/ Rejected(r)
  \/ Blocked(r)
  \/ Empty(r)
  \/ NoContent(r) \/ NoParts(r) \/ EmptyParts(r)

C8_ErrorsAnsweredOnce ==
  \A r \in Requests :
    /\ Len(responses[r]) <= 1
    /\ ErrorCase(r) =>
         /\ Len(responses[r]) = 1
         /\ IsErrorEnvelope(responses[r][1])
         /\ responses[r][1].body.message =
              (IF route[r] = "predict" THEN "Error processing the prediction"
               ELSE "Error testing the Gemini API")
         /\ raised[r] = Some(responses[r][1].body.error)

C8_Witness ==
  \E r \in Requests :
    /\ route[r] = "test" /\ EmptyParts(r)
    /\ responses[r][1].status = 500

\* ------------------------------------------------------------------- C9
\* C9: concurrent /predict requests own distinct temporary paths; each reads and
\* unlinks only its own path, and its file exists when it reads it.
C9_OwnFileOnly ==
  \A r \in Requests :
    /\ \A q \in Requests : (r # q /\ HasFile(r) /\ HasFile(q)) => OwnPath(r) # OwnPath(q)
    /\ \A i \in DOMAIN trace[r] :
         trace[r][i].op \in {"read", "unlink"} =>
           /\ HasFile(r)
           /\ trace[r][i].path = OwnPath(r)
           /\ trace[r][i].exists

C9_Witness ==
  \E r, q \in Requests :
    /\ HasFile(r) /\ pc[r] = "awaiting" /\ OwnPath(r) \in files
    /\ HasFile(q) /\ pc[q] = "done" /\ OwnPath(q) > OwnPath(r)
    /\ Len(Events(q, "unlink")) = 1

====
